---------------------------- MODULE Spec2Model ----------------------------
(***************************************************************************)
(* StateBot: a fact-driven state determination store.                      *)
(*                                                                         *)
(* The model follows src/src/stores/statebot.store.ts (StateBotStore) and  *)
(* the retry loop of the LLM services (src/unnamed/part_002 ClaudeService, *)
(* part_001 ChatGPTService, gemini-integration.service.ts: the three loops *)
(* are the same code).                                                     *)
(*                                                                         *)
(* Encodings.                                                              *)
(*  - A fact text is a sequence of UTF-16 code units (97 = "a", 98 = "b",  *)
(*    124 = "|"), so that sort() and join('|') are computed, not assumed.   *)
(*  - A confidence is a number of hundredths (90 stands for 0.9).          *)
(*  - Times are milliseconds.  The clock is sampled every BackoffBase ms,  *)
(*    the one duration the code fixes itself; the caller's durations are   *)
(*    multiples of it.  Any number of operations may happen at one instant.*)
(*  - A pending setTimeout is an element of timers; a timer that is due    *)
(*    may fire at once or later (the event loop may be busy).              *)
(*  - An updateState() suspended at `await llmService.determineState` is   *)
(*    an element of cycles.                                                *)
(*  - The store is svelte's writable(): set() and update() run the         *)
(*    subscribers' callbacks synchronously, in subscription order, and     *)
(*    get() returns the record the store holds, not a copy.                *)
(***************************************************************************)
EXTENDS Integers, Sequences, FiniteSets, TLC

VARIABLES
    store,        \* the svelte writable: the StateRecord
    updateTimer,  \* this.updateTimer: NULL or a timer handle
    timers,       \* the runtime's pending timeouts: records [id, due]
    cache,        \* this.cache: cache key -> [state, confidence, timestamp]
    cycles,       \* updateState() calls awaiting the LLM service
    config,       \* this.config, as the constructor leaves it
    given,        \* the config object the caller passed to the constructor
    now,          \* the clock (new Date())
    operations,   \* how many operations the caller has issued
    last,         \* what the step that led here delivered to its caller
    subscribers,  \* the svelte store's subscribers, in subscription order
    unsubscribed, \* the callbacks whose unsubscribe handle has been called
    queueStuck,   \* svelte's subscriber_queue was left non-empty by a throw
    notified,     \* what the step that led here passed to each callback
    snapshot,     \* the record getState() returned, while the caller holds it
    errorCleared  \* ghost: the error message the latest step took off the record

vars ==
    <<store, updateTimer, timers, cache, cycles, config, given, now, operations, last,
      subscribers, unsubscribed, queueStuck, notified, snapshot, errorCleared>>

-----------------------------------------------------------------------------
(* Bounds of the model *)

\* the caller issues at most MaxOps operations, keeps at most MaxFacts facts,
\* and the clock is followed for MaxTicks samples
MaxOps == 3
MaxFacts == 2
MaxTicks == 2

\* at most MaxSubscribers callbacks are ever subscribed
MaxSubscribers == 2
MaxListed == 3

-----------------------------------------------------------------------------
(* Values *)

NULL == "null"
NoError == "undefined"

\* config.states: the configured state names
States == {"A", "B"}

\* what a backend may answer
Responses ==
    {[state |-> "A", confidence |-> 90], [state |-> "A", confidence |-> 50],
     [state |-> "B", confidence |-> 90]}

\* what parseResponse can return: it casts the parsed `state` without
\* looking at config.states, so also a name that is not configured, or null
AnyResponses ==
    Responses \cup {[state |-> "Z", confidence |-> 90],
                    [state |-> NULL, confidence |-> 90]}

\* why an attempt fails: response.ok is false, parseResponse throws (a fetch
\* that rejects takes the same path with its own message)
Errors == {"Claude API error", "Failed to parse Claude response"}

\* the fact texts "a" and "b"
FactA == <<97>>
FactB == <<98>>
FactC == <<99>>

RECURSIVE SeqsUpTo(_, _)
SeqsUpTo(S, n) ==
    IF n = 0 THEN {<<>>}
    ELSE LET shorter == SeqsUpTo(S, n - 1)
         IN  shorter \cup {Append(s, x) : s \in shorter, x \in S}

-----------------------------------------------------------------------------
(* Configuration *)

BackoffBase == 500

DefaultCacheExpiry == 300000
DefaultDebounceTime == 500
DefaultRetryCount == 3
DefaultThreshold == 70

\* `value || fallback` on numbers: 0 (like undefined) is falsy
OrDefault(value, fallback) == IF value = 0 THEN fallback ELSE value

\* a variant with `??` in place of `||`: only an omitted option is replaced
optionOrNullish(options, name, fallback) ==
    IF name \in DOMAIN options THEN options[name] ELSE fallback

\* config.name || fallback: an option the caller omits reads as undefined
optionOr(options, name, fallback) ==
    IF name \in DOMAIN options THEN OrDefault(options[name], fallback) ELSE fallback

\* the options the caller passes, the others are omitted.  With retryCount 1
\* a failed attempt fails the call at once
Options == [cacheExpiry |-> 1000, retryCount |-> 1]

\* a caller that leaves retryCount to its default
OptionsRetry == [cacheExpiry |-> 1000]

constructor(options) ==
    [cacheExpiry |-> optionOr(options, "cacheExpiry", DefaultCacheExpiry),
     debounceTime |-> optionOr(options, "debounceTime", DefaultDebounceTime),
     retryCount |-> optionOr(options, "retryCount", DefaultRetryCount),
     determinationThreshold |->
         optionOr(options, "determinationThreshold", DefaultThreshold)]


-----------------------------------------------------------------------------
(* The StateRecord *)

InitialStore ==
    [currentState |-> NULL, previousState |-> NULL, facts |-> <<>>,
     confidence |-> 0, lastUpdated |-> now, transitions |-> <<>>,
     error |-> NoError]

\* mutant: a Transition is appended for every result, changed or not
updateStateStoreAlwaysAppends(state, newState, confidence) ==
    [state EXCEPT
        !.previousState = state.currentState,
        !.currentState = newState,
        !.confidence = confidence,
        !.lastUpdated = now,
        !.transitions = Append(state.transitions,
                               [from |-> state.currentState, to |-> newState,
                                timestamp |-> now, facts |-> state.facts]),
        !.error = NoError]

\* a variant that keeps only the latest Transition
updateStateStoreKeepsLatest(state, newState, confidence) ==
    [state EXCEPT
        !.previousState =
            IF state.currentState # newState
            THEN state.currentState ELSE state.previousState,
        !.currentState = newState,
        !.confidence = confidence,
        !.lastUpdated = now,
        !.transitions =
            IF state.currentState # newState
            THEN <<[from |-> state.currentState, to |-> newState,
                    timestamp |-> now, facts |-> state.facts]>>
            ELSE state.transitions,
        !.error = NoError]

\* a variant that leaves the error field as it is
updateStateStoreKeepsError(state, newState, confidence) ==
    LET stateChanged == state.currentState # newState
    IN  [state EXCEPT
            !.previousState =
                IF stateChanged THEN state.currentState ELSE state.previousState,
            !.currentState = newState,
            !.confidence = confidence,
            !.lastUpdated = now,
            !.transitions =
                IF stateChanged
                THEN Append(state.transitions,
                            [from |-> state.currentState, to |-> newState,
                             timestamp |-> now, facts |-> state.facts])
                ELSE state.transitions]

\* a variant whose Transition starts at previousState
updateStateStoreFromPrevious(state, newState, confidence) ==
    LET stateChanged == state.currentState # newState
    IN  [state EXCEPT
            !.previousState =
                IF stateChanged THEN state.currentState ELSE state.previousState,
            !.currentState = newState,
            !.confidence = confidence,
            !.lastUpdated = now,
            !.transitions =
                IF stateChanged
                THEN Append(state.transitions,
                            [from |-> state.previousState, to |-> newState,
                             timestamp |-> now, facts |-> state.facts])
                ELSE state.transitions,
            !.error = NoError]

\* updateStateStore(newState, confidence): the record store.update() leaves
updateStateStore(state, newState, confidence) ==
    LET stateChanged == state.currentState # newState
        transitions ==
            IF stateChanged
            THEN Append(state.transitions,
                        [from |-> state.currentState, to |-> newState,
                         timestamp |-> now, facts |-> state.facts])
            ELSE state.transitions
    IN  [state EXCEPT
            !.previousState =
                IF stateChanged THEN state.currentState ELSE state.previousState,
            !.currentState = newState,
            !.confidence = confidence,
            !.lastUpdated = now,
            !.transitions = transitions,
            !.error = NoError]

\* mutant: the failure also discards the state that was known
recordErrorDropsState(state, message) ==
    [state EXCEPT !.error = message, !.currentState = NULL, !.confidence = 0]

\* the catch blocks: store.update(state => ({...state, error: message}))
recordError(state, message) == [state EXCEPT !.error = message]

-----------------------------------------------------------------------------
(* The determination cache *)

\* string comparison of sort(): by code units, a proper prefix first
LexLeq(a, b) ==
    \/ /\ Len(a) <= Len(b)
       /\ \A j \in 1..Len(a) : a[j] = b[j]
    \/ \E i \in 1..Len(a) :
         /\ i <= Len(b)
         /\ \A j \in 1..(i - 1) : a[j] = b[j]
         /\ a[i] < b[i]

RECURSIVE Insert(_, _)
Insert(sorted, x) ==
    IF sorted = <<>> THEN <<x>>
    ELSE IF LexLeq(x, Head(sorted)) THEN <<x>> \o sorted
    ELSE <<Head(sorted)>> \o Insert(Tail(sorted), x)

\* mutant: the facts are joined in the order they were added
sortKeepsOrder(facts) == facts

\* facts.slice().sort()
RECURSIVE sort(_)
sort(facts) ==
    IF facts = <<>> THEN <<>>
    ELSE Insert(sort(Tail(facts)), Head(facts))

Separator == 124

\* array.join('|')
RECURSIVE join(_)
join(texts) ==
    IF texts = <<>> THEN <<>>
    ELSE IF Len(texts) = 1 THEN Head(texts)
    ELSE Head(texts) \o <<Separator>> \o join(Tail(texts))

generateCacheKey(facts) == join(sort(facts))

\* mutant: no cache entry is ever used
isCacheNeverValid(timestamp) == FALSE

\* a variant that still uses an entry whose age equals cacheExpiry
isCacheValidAtExpiry(timestamp) == now - timestamp <= config.cacheExpiry

isCacheValid(timestamp) ==
    LET age == now - timestamp
    IN  age < config.cacheExpiry

EmptyCache == [k \in {} |-> NULL]

\* this.cache.set(key, entry)
cacheSet(map, key, entry) ==
    [k \in DOMAIN map \cup {key} |-> IF k = key THEN entry ELSE map[k]]

-----------------------------------------------------------------------------
(* Timers *)

\* this.updateTimer = null (a timer handle is a positive number)
NoTimer == 0

\* clearTimeout(handle): a handle that is no longer pending is ignored
clearTimeout(pending, handle) == {t \in pending : t.id # handle}

\* the handle setTimeout returns: a positive number that names no pending
\* timer
newHandle(pending) ==
    CHOOSE id \in 1..(Cardinality(pending) + 1) :
        /\ \A t \in pending : t.id # id
        /\ \A smaller \in 1..(id - 1) : \E t \in pending : t.id = smaller

\* mutant: the timer armed by the previous mutation is left pending
scheduleStateUpdateKeepsTimer ==
    LET handle == newHandle(timers)
    IN  /\ timers' = timers \cup {[id |-> handle, due |-> now + config.debounceTime]}
        /\ updateTimer' = handle

\* a variant that does not slide: a timer still pending is left to run
scheduleStateUpdateFixedWindow ==
    IF updateTimer # NoTimer /\ clearTimeout(timers, updateTimer) # timers
    THEN UNCHANGED <<timers, updateTimer>>
    ELSE /\ timers' = timers \cup {[id |-> newHandle(timers),
                                     due |-> now + config.debounceTime]}
         /\ updateTimer' = newHandle(timers)

\* scheduleStateUpdate(): the timer callback is TimerFire below
scheduleStateUpdate ==
    LET pending == IF updateTimer # NoTimer
                   THEN clearTimeout(timers, updateTimer)
                   ELSE timers
        handle == newHandle(pending)
    IN  /\ timers' = pending \cup {[id |-> handle, due |-> now + config.debounceTime]}
        /\ updateTimer' = handle

-----------------------------------------------------------------------------
(* What an operation delivers to its caller *)

\* kind: "void", "value" (a promise resolved with value), "throw" (rejected
\* with value), "swallowed" (caught by the timer callback), "pending"
\* response: what an endpoint handler answers with, status 0 when the step
\* is not a handler's answer
NoResponse == [status |-> 0, body |-> [error |-> NoError]]

Delivered(op, kind, value) ==
    [op |-> op, kind |-> kind, value |-> value, response |-> NoResponse]

\* nothing to report: the operation returned undefined, or the step was the
\* runtime's own
Nothing == Delivered("none", "void", NULL)

\* new Response(JSON.stringify(body), {status}): what handlePostStateFacts
\* resolves with
Response(status, body) ==
    [op |-> "post", kind |-> "response", value |-> NULL,
     response |-> [status |-> status, body |-> body]]

\* handlePostStateFacts has awaited addFacts() and goes on in a microtask
Accepted == Delivered("post", "accepted", NULL)

\* that microtask is the next thing to run
addFactsAwaited == last = Accepted

\* JSON.stringify(record): a property whose value is undefined is left out
stringify(record) ==
    IF record.error = NoError
    THEN [field \in DOMAIN record \ {"error"} |-> record[field]]
    ELSE record

-----------------------------------------------------------------------------
(* The svelte store: set(), update(), subscribe(), get() *)

\* the callbacks a caller may subscribe
SubscriberIds == 1..MaxSubscribers

\* the message of the error a faulty callback throws
CallbackError == "callback error"

NoNotifications == [s \in SubscriberIds |-> <<>>]

\* held: the caller has a record from getState(); shared: the parts of it
\* that are still the store's own objects ("record", "facts", "transitions")
NoSnapshot == [held |-> FALSE, shared |-> {}]

\* where callback s stands among the subscribers, 0 when it is not subscribed
position(subs, s) ==
    IF \E i \in 1..Len(subs) : subs[i].id = s
    THEN CHOOSE i \in 1..Len(subs) : subs[i].id = s
    ELSE 0

\* the first subscriber whose callback throws, 0 when none does
firstThrower(subs) ==
    IF \E i \in 1..Len(subs) : subs[i].throws
    THEN CHOOSE i \in 1..Len(subs) :
             /\ subs[i].throws
             /\ \A j \in 1..(i - 1) : ~subs[j].throws
    ELSE 0

\* set() runs the queued callbacks only when it found subscriber_queue empty;
\* a callback that throws ends the loop and the queue keeps its entries
setThrows == ~queueStuck /\ firstThrower(subscribers) # 0

\* mutant: only the first subscriber is notified
deliverToFirst(values) ==
    [s \in SubscriberIds |->
        IF position(subscribers, s) = 1 /\ ~queueStuck THEN values ELSE <<>>]

\* what each callback is passed when a handler sets the records `values` in
\* turn: a throw can only come from the first set(), and the later ones of
\* the handler then find the queue non-empty
deliver(values) ==
    [s \in SubscriberIds |->
        LET at == position(subscribers, s)
            thrower == firstThrower(subscribers)
        IN  IF at = 0 \/ queueStuck THEN <<>>
            ELSE IF thrower = 0 THEN values
            ELSE IF at <= thrower THEN <<values[1]>>
            ELSE <<>>]

\* store.set(value) / store.update(fn) for the records `values` in turn;
\* `kept` names the parts of the old record that the new one reuses
publish(values, kept) ==
    /\ store' = values[Len(values)]
    /\ notified' = deliver(values)
    /\ errorCleared' = IF values[Len(values)].error = NoError THEN store.error ELSE NoError
    /\ queueStuck' = (queueStuck \/ firstThrower(subscribers) # 0)
    /\ snapshot' = [snapshot EXCEPT !.shared = @ \cap kept]

\* a step that sets no record
silent ==
    /\ notified' = NoNotifications
    /\ errorCleared' = NoError
    /\ UNCHANGED <<store, queueStuck, snapshot>>

\* {...state, facts: [...]}: a new record and fact list, the same transitions
KeptByMutation == {"transitions"}

\* {...state, error}: a new record, the same fact list and transitions
KeptByError == {"facts", "transitions"}

\* updateStateStore: a new record, and a new transitions list when the
\* state has changed
keptByResult(state, newState) ==
    IF state.currentState # newState THEN {"facts"} ELSE {"facts", "transitions"}

-----------------------------------------------------------------------------
(* The determination cycle *)

\* an updateState() that has called llmService.determineState(states, facts)
\* and awaits it; the service's first fetch is under way
newCycle(trigger, facts, cacheKey) ==
    [trigger |-> trigger, facts |-> facts, cacheKey |-> cacheKey,
     attempts |-> 0, lastError |-> NULL, pc |-> "fetch", wake |-> 0]

RemoveAt(seq, i) ==
    [j \in 1..(Len(seq) - 1) |-> IF j < i THEN seq[j] ELSE seq[j + 1]]

\* mutant: an empty fact list is determined like any other
neverNoFacts(facts) == FALSE

\* if (facts.length === 0)
noFacts(facts) == Len(facts) = 0

\* a variant in which the timer callback lets the error go
thrownByAll(trigger, message) == Delivered(trigger, "throw", message)

\* how a call started by `trigger` ends when it throws: determineState()
\* rejects, the timer callback catches
thrown(trigger, message) ==
    IF trigger = "post"
    THEN Response(500, [error |-> message])
    ELSE Delivered(trigger, IF trigger = "timer" THEN "swallowed" ELSE "throw",
                   message)

\* how a call started by `trigger` ends when updateState() returns with
\* `record` in the store: handlePostStateFacts answers with the record
returned(trigger, record) ==
    IF trigger = "post"
    THEN Response(200, stringify(record))
    ELSE Delivered(trigger, "value", record.currentState)

\* the records set when applying a result makes a callback throw: outside
\* updateState()'s try block (cache hit) only the timer callback's catch
\* records the error, inside it (backend response) updateState()'s catch does
\* so first
afterCallbackThrow(trigger, updated, inTry) ==
    LET caught == recordError(updated, CallbackError)
    IN  IF trigger = "timer"
        THEN IF inTry
             THEN <<updated, caught, recordError(caught, CallbackError)>>
             ELSE <<updated, caught>>
        ELSE IF inTry THEN <<updated, caught>> ELSE <<updated>>

\* updateStateStore(newState, confidence) called from updateState()
applyResult(trigger, newState, confidence, inTry) ==
    LET updated == updateStateStore(store, newState, confidence)
        kept == keptByResult(store, newState)
    IN  IF setThrows
        THEN /\ publish(afterCallbackThrow(trigger, updated, inTry), kept)
             /\ last' = thrown(trigger, CallbackError)
        ELSE /\ publish(<<updated>>, kept)
             /\ last' = returned(trigger, updated)

\* updateState() up to its return or its await
updateState(trigger) ==
    LET currentState == store
        facts == currentState.facts
        cacheKey == generateCacheKey(facts)
    IN  IF noFacts(facts)
        THEN /\ last' = returned(trigger, currentState)
             /\ silent
             /\ UNCHANGED <<cache, cycles>>
        ELSE IF cacheKey \in DOMAIN cache /\ isCacheValid(cache[cacheKey].timestamp)
        THEN /\ applyResult(trigger, cache[cacheKey].state,
                            cache[cacheKey].confidence, FALSE)
             /\ UNCHANGED <<cache, cycles>>
        ELSE /\ cycles' = Append(cycles, newCycle(trigger, facts, cacheKey))
             /\ last' = Delivered(trigger, "pending", NULL)
             /\ silent
             /\ UNCHANGED cache

\* mutant: the loop gives up one attempt early
loopStopsEarly(attempts) == attempts < config.retryCount - 1

\* the service's loop test: while (attempts < this.retryCount)
loopContinues(attempts) == attempts < config.retryCount

\* the catch block's test before the backoff wait
waitsBeforeRetry(attempts) == attempts < config.retryCount

RECURSIVE Pow2(_)
Pow2(n) == IF n = 0 THEN 1 ELSE 2 * Pow2(n - 1)

\* mutant: the backoff starts at 500 ms
backoffDelayFromZero(attempts) == Pow2(attempts - 1) * BackoffBase

\* 2 ** attempts * 500
backoffDelay(attempts) == Pow2(attempts) * BackoffBase

\* a variant that computes the cache key when the response arrives
resolveCycleKeyedLate(i, response) ==
    /\ cache' = cacheSet(cache, generateCacheKey(store.facts),
                         [state |-> response.state,
                          confidence |-> response.confidence,
                          timestamp |-> now])
    /\ applyResult(cycles[i].trigger, response.state, response.confidence, TRUE)
    /\ cycles' = RemoveAt(cycles, i)

\* a variant that applies the result to the record read at the start of the
\* cycle, and so restores the facts of that instant
resolveCycleFromSnapshot(i, response) ==
    LET c == cycles[i]
        stale == [store EXCEPT !.facts = c.facts]
        updated == updateStateStore(stale, response.state, response.confidence)
    IN  /\ cache' = cacheSet(cache, c.cacheKey,
                             [state |-> response.state,
                              confidence |-> response.confidence,
                              timestamp |-> now])
        /\ publish(<<updated>>, keptByResult(store, response.state))
        /\ last' = returned(c.trigger, updated)
        /\ cycles' = RemoveAt(cycles, i)

\* updateState()'s continuation when the service returns `response`
resolveCycle(i, response) ==
    LET c == cycles[i]
    IN  /\ cache' = cacheSet(cache, c.cacheKey,
                             [state |-> response.state,
                              confidence |-> response.confidence,
                              timestamp |-> now])
        /\ applyResult(c.trigger, response.state, response.confidence, TRUE)
        /\ cycles' = RemoveAt(cycles, i)

\* updateState()'s catch block when the service throws `error`; the timer
\* callback catches the rethrown error and records it again.  When the
\* catch block's own store.update() makes a callback throw, that error is
\* the one that leaves updateState()
rejectCycle(i, error) ==
    LET c == cycles[i]
        recorded == recordError(store, error)
        message == IF setThrows THEN CallbackError ELSE error
    IN  /\ publish(IF c.trigger = "timer"
                   THEN <<recorded, recordError(recorded, message)>>
                   ELSE <<recorded>>,
                   KeptByError)
        /\ cycles' = RemoveAt(cycles, i)
        /\ last' = thrown(c.trigger, message)
        /\ UNCHANGED cache

\* the service's throw after the loop, reached from the backoff wait
throwLastError(i) == rejectCycle(i, cycles[i].lastError)

-----------------------------------------------------------------------------
(* Operations of the caller *)

callerStep ==
    /\ operations < MaxOps
    /\ operations' = operations + 1

\* a fact mutation: the store.update(), then scheduleStateUpdate() unless a
\* callback threw
mutate(op, facts) ==
    /\ publish(<<[store EXCEPT !.facts = facts]>>, KeptByMutation)
    /\ IF setThrows
       THEN /\ last' = Delivered(op, "throw", CallbackError)
            /\ UNCHANGED <<timers, updateTimer>>
       ELSE /\ last' = Nothing
            /\ scheduleStateUpdate
    /\ UNCHANGED <<cache, cycles, config, given, now, subscribers, unsubscribed>>

\* a variant that forgets the determined state when a fact is added
addFactDropsState(fact) ==
    /\ callerStep
    /\ Len(store.facts) < MaxFacts
    /\ publish(<<[store EXCEPT !.facts = Append(store.facts, fact),
                               !.currentState = NULL]>>, KeptByMutation)
    /\ last' = Nothing
    /\ scheduleStateUpdate
    /\ UNCHANGED <<cache, cycles, config, given, now, subscribers, unsubscribed>>

addFact(fact) ==
    /\ callerStep
    /\ Len(store.facts) < MaxFacts
    /\ mutate("addFact", Append(store.facts, fact))

\* a variant that puts the new facts in front
addFactsInFront(facts) ==
    /\ callerStep
    /\ Len(store.facts) + Len(facts) <= MaxFacts
    /\ mutate("addFacts", facts \o store.facts)

addFacts(facts) ==
    /\ callerStep
    /\ Len(store.facts) + Len(facts) <= MaxFacts
    /\ mutate("addFacts", store.facts \o facts)

\* a variant that removes the first occurrence only
removeFactFirstOnly(fact) ==
    LET first == CHOOSE i \in 1..(Len(store.facts) + 1) :
                     /\ i <= Len(store.facts) => store.facts[i] = fact
                     /\ \A j \in 1..(i - 1) : store.facts[j] # fact
    IN  /\ callerStep
        /\ mutate("removeFact",
                  IF first <= Len(store.facts)
                  THEN RemoveAt(store.facts, first) ELSE store.facts)

\* a variant that treats the removal of the last fact as clearFacts() does
removeFactClears(fact) ==
    LET facts == SelectSeq(store.facts, LAMBDA f : f # fact)
        removed == [store EXCEPT !.facts = facts]
    IN  /\ callerStep
        /\ publish(<<IF facts = <<>>
                      THEN [removed EXCEPT !.currentState = NULL, !.confidence = 0]
                      ELSE removed>>, KeptByMutation)
        /\ last' = Nothing
        /\ scheduleStateUpdate
        /\ UNCHANGED <<cache, cycles, config, given, now, subscribers, unsubscribed>>

removeFact(fact) ==
    /\ callerStep
    /\ mutate("removeFact", SelectSeq(store.facts, LAMBDA f : f # fact))

\* mutant: only the fact list is emptied
clearFactsOnly ==
    /\ callerStep
    /\ publish(<<[store EXCEPT !.facts = <<>>]>>, KeptByMutation)
    /\ last' = Nothing
    /\ UNCHANGED <<updateTimer, timers, cache, cycles, config, given, now, subscribers, unsubscribed>>

\* a variant that also forgets the previous state
clearFactsForgetsPrevious ==
    LET emptied == [store EXCEPT !.facts = <<>>]
        cleared == [emptied EXCEPT !.currentState = NULL, !.confidence = 0,
                                   !.previousState = NULL]
    IN  /\ callerStep
        /\ publish(<<emptied, cleared>>, KeptByMutation)
        /\ last' = Nothing
        /\ UNCHANGED <<updateTimer, timers, cache, cycles, config, given, now,
                       subscribers, unsubscribed>>

clearFacts ==
    LET emptied == [store EXCEPT !.facts = <<>>]
        cleared == [emptied EXCEPT !.currentState = NULL, !.confidence = 0]
    IN  /\ callerStep
        /\ IF setThrows
           THEN /\ publish(<<emptied>>, KeptByMutation)
                /\ last' = Delivered("clearFacts", "throw", CallbackError)
           ELSE /\ publish(<<emptied, cleared>>, KeptByMutation)
                /\ last' = Nothing
        /\ UNCHANGED <<updateTimer, timers, cache, cycles, config, given, now, subscribers, unsubscribed>>

\* mutant: the pending timer is left alone
determineStateKeepsTimer ==
    /\ callerStep
    /\ updateState("determineState")
    /\ UNCHANGED <<updateTimer, timers, config, given, now, subscribers, unsubscribed>>

determineState ==
    /\ callerStep
    /\ IF updateTimer # NoTimer
       THEN /\ timers' = clearTimeout(timers, updateTimer)
            /\ updateTimer' = NoTimer
       ELSE UNCHANGED <<timers, updateTimer>>
    /\ updateState("determineState")
    /\ UNCHANGED <<config, given, now, subscribers, unsubscribed>>

\* mutant: the cache survives the reset
resetKeepsCache ==
    /\ callerStep
    /\ publish(<<InitialStore>>, {})
    /\ last' = Nothing
    /\ UNCHANGED <<cache, updateTimer, timers, cycles, config, given, now, subscribers,
                   unsubscribed>>

reset ==
    /\ callerStep
    /\ publish(<<InitialStore>>, {})
    /\ IF setThrows
       THEN /\ last' = Delivered("reset", "throw", CallbackError)
            /\ UNCHANGED cache
       ELSE /\ last' = Nothing
            /\ cache' = EmptyCache
    /\ UNCHANGED <<updateTimer, timers, cycles, config, given, now, subscribers, unsubscribed>>

\* subscribe(callback): svelte adds the subscriber and runs the callback
\* with the current record; when that throws no unsubscribe handle is
\* returned and the subscriber stays.  Subscriptions are bounded by
\* MaxSubscribers, not by MaxOps: a callback is subscribed once
subscribe(s, throws) ==
    /\ position(subscribers, s) = 0
    /\ s \notin unsubscribed
    /\ subscribers' = Append(subscribers, [id |-> s, throws |-> throws])
    /\ notified' = [NoNotifications EXCEPT ![s] = <<store>>]
    /\ errorCleared' = NoError
    /\ last' = IF throws
               THEN Delivered("subscribe", "throw", CallbackError)
               ELSE Delivered("subscribe", "value", "unsubscribe")
    /\ UNCHANGED <<store, queueStuck, snapshot, updateTimer, timers, cache,
                   cycles, config, given, now, operations, unsubscribed>>

\* the unsubscribe handle subscribe() returned for callback s
unsubscribe(s) ==
    /\ callerStep
    /\ position(subscribers, s) # 0
    /\ ~subscribers[position(subscribers, s)].throws
    /\ subscribers' = SelectSeq(subscribers, LAMBDA x : x.id # s)
    /\ unsubscribed' = unsubscribed \cup {s}
    /\ last' = Nothing
    /\ silent
    /\ UNCHANGED <<updateTimer, timers, cache, cycles, config, given, now>>

\* what `await request.json()` gives handlePostStateFacts: `parsed` is
\* "throws" for a body that is not JSON, "null" for the JSON text null,
\* "object" for a JSON object; `facts` is the object's facts property, of
\* type "undefined" (no such property), "string" (items: its code units) or
\* "array" (items: its fact texts)
Body(parsed, type, items) ==
    [parsed |-> parsed, facts |-> [type |-> type, items |-> items]]

NotJson == Body("throws", "undefined", <<>>)
JsonNull == Body("null", "undefined", <<>>)

\* the messages of the errors request.json() and `body.facts` throw
SyntaxError == "Unexpected token"
TypeError == "Cannot read properties of null"
InvalidRequest == "Invalid request. Expected facts array."

\* !value, for the values a facts property takes here
falsy(value) ==
    \/ value.type = "undefined"
    \/ value.type = "string" /\ value.items = <<>>

\* Array.isArray(value)
isArray(value) == value.type = "array"

\* handlePostStateFacts(request) up to its first answer or to the await of
\* addFacts(); addFacts() itself runs to its end before the await
handlePostStateFacts(body) ==
    /\ callerStep
    /\ IF body.parsed = "throws" \/ body.parsed = "null"
       THEN /\ last' = Response(500, [error |-> IF body.parsed = "throws"
                                                THEN SyntaxError ELSE TypeError])
            /\ silent
            /\ UNCHANGED <<timers, updateTimer>>
       ELSE IF falsy(body.facts) \/ ~isArray(body.facts)
       THEN /\ last' = Response(400, [error |-> InvalidRequest])
            /\ silent
            /\ UNCHANGED <<timers, updateTimer>>
       ELSE /\ Len(store.facts) + Len(body.facts.items) <= MaxFacts
            /\ publish(<<[store EXCEPT !.facts = store.facts \o body.facts.items]>>,
                       KeptByMutation)
            /\ IF setThrows
               THEN /\ last' = Response(500, [error |-> CallbackError])
                    /\ UNCHANGED <<timers, updateTimer>>
               ELSE /\ last' = Accepted
                    /\ scheduleStateUpdate
    /\ UNCHANGED <<cache, cycles, config, given, now, subscribers, unsubscribed>>

\* a variant that leaves the timer armed by addFacts() pending
postDetermineStateKeepsTimer ==
    /\ addFactsAwaited
    /\ updateState("post")
    /\ UNCHANGED <<timers, updateTimer, config, given, now, operations, subscribers,
                   unsubscribed>>

\* handlePostStateFacts after `await this.addFacts(...)`: determineState(),
\* up to the answer or to updateState()'s await of the backend
postDetermineState ==
    /\ addFactsAwaited
    /\ IF updateTimer # NoTimer
       THEN /\ timers' = clearTimeout(timers, updateTimer)
            /\ updateTimer' = NoTimer
       ELSE UNCHANGED <<timers, updateTimer>>
    /\ updateState("post")
    /\ UNCHANGED <<config, given, now, operations, subscribers, unsubscribed>>

\* getState(): svelte's get() returns the record the store holds
getState ==
    /\ callerStep
    /\ snapshot' = [held |-> TRUE, shared |-> {"record", "facts", "transitions"}]
    /\ notified' = NoNotifications
    /\ errorCleared' = NoError
    /\ last' = Delivered("getState", "value", "record")
    /\ UNCHANGED <<store, queueStuck, updateTimer, timers, cache, cycles, config, given,
                   now, subscribers, unsubscribed>>

\* the caller writes to the record getState() returned: the write reaches
\* the store when the written object is still the store's own, and no
\* callback is run
writeSnapshot(op, part, written) ==
    /\ callerStep
    /\ snapshot.held
    /\ store' = IF part \in snapshot.shared THEN written ELSE store
    /\ notified' = NoNotifications
    /\ errorCleared' = NoError
    /\ last' = Delivered(op, "void", NULL)
    /\ UNCHANGED <<snapshot, queueStuck, updateTimer, timers, cache, cycles,
                   config, given, now, subscribers, unsubscribed>>

\* snapshot.facts.push(fact)
pushFact(fact) ==
    /\ Len(store.facts) < MaxFacts
    /\ writeSnapshot("pushFact", "facts",
                     [store EXCEPT !.facts = Append(store.facts, fact)])

\* snapshot.currentState = state
assignState(state) ==
    writeSnapshot("assignState", "record", [store EXCEPT !.currentState = state])

\* snapshot.transitions.length = 0
truncateTransitions ==
    writeSnapshot("truncateTransitions", "transitions",
                  [store EXCEPT !.transitions = <<>>])

-----------------------------------------------------------------------------
(* Steps of the runtime *)

\* mutant: the callback does not call updateState()
TimerFireIdle(t) ==
    /\ t.due <= now
    /\ timers' = timers \ {t}
    /\ last' = Nothing
    /\ silent
    /\ UNCHANGED <<updateTimer, cache, cycles, config, given, now, operations,
                   subscribers, unsubscribed>>

\* the callback scheduleStateUpdate() passed to setTimeout runs
TimerFire(t) ==
    /\ t.due <= now
    /\ timers' = timers \ {t}
    /\ updateState("timer")
    /\ UNCHANGED <<updateTimer, config, given, now, operations, subscribers, unsubscribed>>

\* an attempt of the service succeeds: fetch resolves, response.ok,
\* parseResponse returns
FetchOk(i, response) ==
    /\ cycles[i].pc = "fetch"
    /\ resolveCycle(i, response)
    /\ UNCHANGED <<updateTimer, timers, config, given, now, operations, subscribers, unsubscribed>>

\* an attempt fails: the catch block of the service's loop
FetchFail(i, error) ==
    LET c == cycles[i]
        attempts == c.attempts + 1
        failed == [c EXCEPT !.attempts = attempts, !.lastError = error]
    IN  /\ c.pc = "fetch"
        /\ IF waitsBeforeRetry(attempts)
           THEN /\ cycles' = [cycles EXCEPT ![i] =
                                [failed EXCEPT !.pc = "backoff",
                                               !.wake = now + backoffDelay(attempts)]]
                /\ last' = Nothing
                /\ silent
                /\ UNCHANGED cache
           ELSE IF loopContinues(attempts)
           THEN /\ cycles' = [cycles EXCEPT ![i] = failed]
                /\ last' = Nothing
                /\ silent
                /\ UNCHANGED cache
           ELSE rejectCycle(i, failed.lastError)
        /\ UNCHANGED <<updateTimer, timers, config, given, now, operations, subscribers, unsubscribed>>

\* the backoff wait is over: the loop test, then the next fetch
BackoffOver(i) ==
    LET c == cycles[i]
    IN  /\ c.pc = "backoff"
        /\ c.wake <= now
        /\ IF loopContinues(c.attempts)
           THEN /\ cycles' = [cycles EXCEPT ![i] = [c EXCEPT !.pc = "fetch", !.wake = 0]]
                /\ last' = Nothing
                /\ silent
                /\ UNCHANGED cache
           ELSE throwLastError(i)
        /\ UNCHANGED <<updateTimer, timers, config, given, now, operations, subscribers, unsubscribed>>

Tick ==
    /\ now < MaxTicks * BackoffBase
    /\ now' = now + BackoffBase
    /\ last' = Nothing
    /\ silent
    /\ UNCHANGED <<updateTimer, timers, cache, cycles, config, given, operations, subscribers, unsubscribed>>

\* the instants at which a pending timer or backoff wait becomes due
Deadlines ==
    {t.due : t \in timers}
        \cup {cycles[i].wake : i \in {j \in 1..Len(cycles) : cycles[j].pc = "backoff"}}

\* nothing runs until the next deadline
Idle ==
    /\ \E d \in Deadlines :
         /\ d > now
         /\ \A e \in Deadlines : e > now => d <= e
         /\ now' = d
    /\ last' = Nothing
    /\ silent
    /\ UNCHANGED <<updateTimer, timers, cache, cycles, config, given, operations, subscribers, unsubscribed>>

-----------------------------------------------------------------------------
(* The specifications *)

InitWith(options) ==
    /\ given = options
    /\ config = constructor(options)
    /\ now = 0
    /\ store = InitialStore
    /\ updateTimer = NoTimer
    /\ timers = {}
    /\ cache = EmptyCache
    /\ cycles = <<>>
    /\ operations = 0
    /\ last = Nothing
    /\ subscribers = <<>>
    /\ unsubscribed = {}
    /\ queueStuck = FALSE
    /\ notified = NoNotifications
    /\ snapshot = NoSnapshot
    /\ errorCleared = NoError

\* the caller's fact mutations, on fact texts drawn from `texts`
Mutations(texts) ==
    \/ \E fact \in texts : addFact(fact)
    \/ \E facts \in SeqsUpTo(texts, MaxFacts) : addFacts(facts)
    \/ \E fact \in texts : removeFact(fact)

\* the caller's operations
Caller(texts) ==
    \/ Mutations(texts)
    \/ clearFacts
    \/ determineState
    \/ reset

Runtime ==
    \/ \E t \in timers : TimerFire(t)
    \/ \E i \in 1..Len(cycles), response \in Responses : FetchOk(i, response)
    \/ \E i \in 1..Len(cycles), error \in Errors : FetchFail(i, error)
    \/ Tick

\* a backend that answers every call at the first attempt
RuntimeOk ==
    \/ \E t \in timers : TimerFire(t)
    \/ \E i \in 1..Len(cycles), response \in Responses : FetchOk(i, response)
    \/ Tick

Init == InitWith(Options)

\* the store with one fact text; the service's retries are followed in
\* SpecRetry
Next == Caller({FactA}) \/ Runtime

Spec == Init /\ [][Next]_vars

\* the debounced store with two fact texts and a backend that does not fail
NextFacts == Mutations({FactA, FactB}) \/ RuntimeOk

SpecFacts == Init /\ [][NextFacts]_vars

\* the service's retry loop with the default retryCount, under explicit
\* determineState() calls; the clock runs from deadline to deadline
InitRetry == InitWith(OptionsRetry)

NextRetry ==
    \/ addFact(FactA)
    \/ determineState
    \/ \E i \in 1..Len(cycles), response \in Responses : FetchOk(i, response)
    \/ \E i \in 1..Len(cycles), error \in Errors : FetchFail(i, error)
    \/ \E i \in 1..Len(cycles) : BackoffOver(i)
    \/ Idle

SpecRetry == InitRetry /\ [][NextRetry]_vars

\* the debounced store with a stub backend that answers every call with
\* state A, confidence 0.9.  The event loop runs a timer that is due, time
\* passes, and the backend answers
StubResponse == [state |-> "A", confidence |-> 90]

TimerFires == \E t \in timers : TimerFire(t)

StubAnswers == \E i \in 1..Len(cycles) : FetchOk(i, StubResponse)

NextLive ==
    \/ Mutations({FactA})
    \/ clearFacts
    \/ TimerFires
    \/ StubAnswers
    \/ Idle

SpecLive ==
    /\ Init
    /\ [][NextLive]_vars
    /\ WF_vars(TimerFires)
    /\ WF_vars(StubAnswers)
    /\ WF_vars(Idle)

\* the store with a backend that answers with any state value, and a caller
\* that also writes to the record getState() returned
NextBackend ==
    \/ addFact(FactA)
    \/ clearFacts
    \/ reset
    \/ determineState
    \/ getState
    \/ \E state \in States \cup {NULL} : assignState(state)
    \/ \E t \in timers : TimerFire(t)
    \/ \E i \in 1..Len(cycles), response \in AnyResponses : FetchOk(i, response)
    \/ Tick

SpecBackend == Init /\ [][NextBackend]_vars

\* the fact list under every mutation with two fact texts, with the backend
\* that answers A with confidence 0.9
NextList ==
    \/ Mutations({FactA, FactB})
    \/ TimerFires
    \/ StubAnswers
    \/ Tick

SpecList == Init /\ [][NextList]_vars

\* removeFact() on the lists of up to MaxListed of three fact texts: the
\* store starts as `new StateBotStore(options)` followed by addFacts(facts)
\* leaves it
InitListed ==
    \E facts \in SeqsUpTo({FactA, FactB, FactC}, MaxListed) :
        /\ given = Options
        /\ config = constructor(Options)
        /\ now = 0
        /\ store = [InitialStore EXCEPT !.facts = facts]
        /\ updateTimer = newHandle({})
        /\ timers = {[id |-> newHandle({}), due |-> now + config.debounceTime]}
        /\ cache = EmptyCache
        /\ cycles = <<>>
        /\ operations = 1
        /\ last = Nothing
        /\ subscribers = <<>>
        /\ unsubscribed = {}
        /\ queueStuck = FALSE
        /\ notified = NoNotifications
        /\ snapshot = NoSnapshot
        /\ errorCleared = NoError

NextRemove ==
    \/ \E fact \in {FactA, FactB, FactC} : removeFact(fact)
    \/ TimerFires
    \/ StubAnswers
    \/ Tick

SpecRemove == InitListed /\ [][NextRemove]_vars

\* the store of a caller whose last operation is reset(): the operations
\* before it leave timers and cycles behind, nothing follows it but the
\* runtime
NextReset ==
    \/ operations < MaxOps - 1 /\ (addFact(FactA) \/ determineState)
    \/ operations = MaxOps - 1 /\ reset
    \/ Runtime

SpecReset == Init /\ [][NextReset]_vars

\* a deterministic backend: its answer is a function of the fact list it is
\* asked about, B when the fact b is among them and A otherwise
Oracle(facts) ==
    IF \E i \in 1..Len(facts) : facts[i] = FactB
    THEN [state |-> "B", confidence |-> 90]
    ELSE [state |-> "A", confidence |-> 90]

OracleAnswers == \E i \in 1..Len(cycles) : FetchOk(i, Oracle(cycles[i].facts))

\* the store with that backend, which answers in any order and never fails
NextQuiet ==
    \/ Mutations({FactA, FactB})
    \/ clearFacts
    \/ determineState
    \/ TimerFires
    \/ OracleAnswers
    \/ Tick

SpecQuiet == Init /\ [][NextQuiet]_vars

\* the numeric options, and the values a caller passes for one when the
\* option is not omitted
OptionNames == {"cacheExpiry", "debounceTime", "retryCount"}

Offered(name) == IF name = "retryCount" THEN {0, 1, 2} ELSE {0, 1000}

\* the config objects of the callers: every option is omitted, 0 or positive
ConfigObjects ==
    UNION {{options \in [names -> {0, 1, 2, 1000}] :
                \A name \in names : options[name] \in Offered(name)} :
           names \in SUBSET OptionNames}

\* the store constructed from any of these, with the service's retry loop,
\* under explicit determineState() calls; the timer callback is followed in
\* Spec
InitConfig == \E options \in ConfigObjects : InitWith(options)

NextConfig ==
    \/ addFact(FactA)
    \/ determineState
    \/ StubAnswers
    \/ \E i \in 1..Len(cycles) : FetchFail(i, "Claude API error")
    \/ \E i \in 1..Len(cycles) : BackoffOver(i)
    \/ Idle

SpecConfig == InitConfig /\ [][NextConfig]_vars

\* the request bodies a client posts
Bodies ==
    {NotJson, JsonNull, Body("object", "undefined", <<>>),
     Body("object", "string", <<>>), Body("object", "string", FactA)}
        \cup {Body("object", "array", facts) : facts \in SeqsUpTo({FactA}, MaxFacts)}

\* the store behind the endpoint: the continuation of an awaited addFacts()
\* is a microtask and runs before any timer, backend answer or request
NextPost ==
    IF addFactsAwaited
    THEN postDetermineState
    ELSE \/ \E body \in Bodies : handlePostStateFacts(body)
         \/ addFact(FactA)
         \/ \E t \in timers : TimerFire(t)
         \/ \E i \in 1..Len(cycles), response \in Responses : FetchOk(i, response)
         \/ \E i \in 1..Len(cycles), error \in Errors : FetchFail(i, error)
         \/ Idle

SpecPost == Init /\ [][NextPost]_vars

\* the store observed by subscribers whose callbacks return
NextSubs ==
    \/ \E s \in SubscriberIds : subscribe(s, FALSE)
    \/ \E s \in SubscriberIds : unsubscribe(s)
    \/ addFact(FactA)
    \/ removeFact(FactA)
    \/ clearFacts
    \/ reset
    \/ Runtime

SpecSubs == Init /\ [][NextSubs]_vars

\* the store observed by subscribers some of whose callbacks throw
NextThrow ==
    \/ \E s \in SubscriberIds, throws \in BOOLEAN : subscribe(s, throws)
    \/ addFact(FactA)
    \/ clearFacts
    \/ reset
    \/ determineState
    \/ Runtime

SpecThrow == Init /\ [][NextThrow]_vars

\* a caller that keeps the record getState() returned and writes to it
NextSnapshot ==
    \/ getState
    \/ pushFact(FactA)
    \/ \E state \in States : assignState(state)
    \/ truncateTransitions
    \/ addFact(FactA)
    \/ determineState
    \/ RuntimeOk

SpecSnapshot == Init /\ [][NextSnapshot]_vars

-----------------------------------------------------------------------------
(* Steps named by what they do *)

\* a fact mutation: addFact, addFacts or removeFact
Mutation == Mutations({FactA, FactB})

\* an updateState() starts, from determineState() or from the timer
Starts == determineState \/ \E t \in timers : TimerFire(t)

\* the cache entry updateState() would use for the facts of the store
CacheHit ==
    /\ store.facts # <<>>
    /\ generateCacheKey(store.facts) \in DOMAIN cache
    /\ isCacheValid(cache[generateCacheKey(store.facts)].timestamp)

\* a determination result (newState, confidence) is applied to the store
AppliedFromCache(newState, confidence) ==
    /\ Starts
    /\ CacheHit
    /\ cache[generateCacheKey(store.facts)].state = newState
    /\ cache[generateCacheKey(store.facts)].confidence = confidence

AppliedFromBackend(newState, confidence) ==
    \E i \in 1..Len(cycles) :
        FetchOk(i, [state |-> newState, confidence |-> confidence])

-----------------------------------------------------------------------------
(* C1: transition append law.  Whenever a determination result is applied    *)
(* (from the backend or from the cache), a Transition is appended iff the    *)
(* new state differs from currentState; the record appended has from = old   *)
(* currentState, to = new state, facts = the facts of that instant, and      *)
(* previousState becomes the old currentState; otherwise transitions and     *)
(* previousState stay, and confidence and lastUpdated are refreshed anyway.  *)

AppendLaw(newState, confidence) ==
    /\ store'.currentState = newState
    /\ store'.confidence = confidence
    /\ store'.lastUpdated = now
    /\ IF store.currentState # newState
       THEN /\ Len(store'.transitions) = Len(store.transitions) + 1
            /\ SubSeq(store'.transitions, 1, Len(store.transitions)) = store.transitions
            /\ store'.transitions[Len(store'.transitions)].from = store.currentState
            /\ store'.transitions[Len(store'.transitions)].to = newState
            /\ store'.transitions[Len(store'.transitions)].facts = store.facts
            /\ store'.previousState = store.currentState
       ELSE /\ store'.transitions = store.transitions
            /\ store'.previousState = store.previousState

C1_TransitionAppendLaw ==
    [][\A r \in Responses :
          (\/ AppliedFromCache(r.state, r.confidence)
           \/ AppliedFromBackend(r.state, r.confidence))
          => AppendLaw(r.state, r.confidence)]_vars

\* a later result with the same state was applied without a new Transition,
\* and refreshed the confidence
C1_Witness ==
    /\ Len(store.transitions) = 1
    /\ store.transitions[1].to = store.currentState
    /\ store.transitions[1].timestamp < store.lastUpdated
    /\ store.confidence = 50
    /\ last.kind = "value"

-----------------------------------------------------------------------------
(* C2: stale-state-on-error.  Whenever a determination cycle fails (the LLM  *)
(* client raises), currentState, previousState, confidence, facts and        *)
(* transitions are what they were before the failure and only the error      *)
(* field is set, to the failure message; a non-null currentState never       *)
(* becomes null by a failed determination.                                   *)

\* the service throws `error` into the catch block of cycle i
Fails(i, error) == FetchFail(i, error) /\ Len(cycles') = Len(cycles) - 1

C2_StaleStateOnError ==
    [][\A i \in 1..Len(cycles), error \in Errors :
          Fails(i, error) =>
              /\ store' = [store EXCEPT !.error = error]
              /\ store'.currentState = store.currentState
              /\ store'.previousState = store.previousState
              /\ store'.confidence = store.confidence
              /\ store'.facts = store.facts
              /\ store'.transitions = store.transitions
              /\ (store.currentState # NULL => store'.currentState # NULL)]_vars

\* a determination failed while a state was known, and the state is kept
C2_Witness ==
    /\ last.kind = "throw"
    /\ store.error = last.value
    /\ store.error \in Errors
    /\ store.currentState # NULL
    /\ store.transitions # <<>>

-----------------------------------------------------------------------------
(* C3: debounce invariant.  Fact mutations (addFact, addFacts, removeFact)   *)
(* that follow each other within less than debounceTime, with no explicit    *)
(* determineState() in between, start at most one determination cycle, the  *)
(* one armed by the last mutation: at most one timer is ever pending, it is  *)
(* the one the last mutation armed (a mutation cancels the timer before it   *)
(* and arms one due debounceTime later), a timer fires only when due, and    *)
(* its firing starts at most one cycle and leaves no timer pending.          *)

C3_DebounceInvariant ==
    /\ [](/\ Cardinality(timers) <= 1
          /\ \A t \in timers :
                /\ t.id = updateTimer
                /\ t.due <= now + config.debounceTime)
    /\ [][/\ Mutation =>
                /\ timers' = {[id |-> updateTimer',
                               due |-> now + config.debounceTime]}
                /\ cycles' = cycles
          /\ \A t \in timers :
                TimerFire(t) =>
                    /\ t.due <= now
                    /\ timers' = {}
                    /\ Len(cycles') <= Len(cycles) + 1
                    /\ SubSeq(cycles', 1, Len(cycles)) = cycles
                    /\ Len(cycles') = Len(cycles) + 1 =>
                           cycles'[Len(cycles')].facts = store.facts]_vars

\* two mutations at one instant, then the one cycle of the burst, started by
\* the timer with the facts of both
C3_Witness ==
    /\ operations = 2
    /\ now = config.debounceTime
    /\ timers = {}
    /\ Len(cycles) = 1
    /\ cycles[1].trigger = "timer"
    /\ cycles[1].facts = <<FactA, FactA>>
    /\ store.transitions = <<>>

-----------------------------------------------------------------------------
(* C4: idempotence of determineState().  Two determineState() calls in a row *)
(* with an unchanged, non-empty fact list and a non-expired cache entry      *)
(* yield the same state and confidence and make at most one backend call:    *)
(* when the first call returns (from the backend or from the cache) the      *)
(* cache holds, for the facts of the store, a valid entry that agrees with   *)
(* the store; a call made while such an entry is valid returns the same      *)
(* state, leaves state and confidence as they are and calls no backend.      *)

\* the cache entry for the facts of the store is what the store shows
Agree ==
    /\ cache[generateCacheKey(store.facts)].state = store.currentState
    /\ cache[generateCacheKey(store.facts)].confidence = store.confidence

\* a determineState() call that awaited the backend returns, the facts being
\* those it was called with
ReturnsFromBackend ==
    \E i \in 1..Len(cycles), response \in Responses :
        /\ FetchOk(i, response)
        /\ cycles[i].trigger = "determineState"
        /\ cycles[i].facts = store.facts

C4_DetermineStateIdempotent ==
    [][/\ ReturnsFromBackend => (CacheHit /\ Agree)'
       /\ determineState /\ CacheHit =>
              /\ (CacheHit /\ Agree)'
              /\ cycles' = cycles
              /\ cache' = cache
              /\ last' = Delivered("determineState", "value",
                                   cache[generateCacheKey(store.facts)].state)
       /\ determineState /\ CacheHit /\ Agree =>
              /\ last'.value = store.currentState
              /\ store'.currentState = store.currentState
              /\ store'.confidence = store.confidence]_vars

\* a call at time 0 went to the backend (no timer is due before
\* debounceTime), and a second call later was served from the entry it wrote
C4_Witness ==
    /\ store.facts = <<FactA>>
    /\ CacheHit
    /\ Agree
    /\ cache[generateCacheKey(store.facts)].timestamp = 0
    /\ store.lastUpdated = BackoffBase
    /\ last = Delivered("determineState", "value", store.currentState)
    /\ cycles = <<>>

-----------------------------------------------------------------------------
(* C5: cache key invariant.  For every fact list F (duplicates included) and *)
(* every permutation P of F, the cache key of P is the cache key of F, so a  *)
(* determination on P made while the entry written for F is not expired is   *)
(* a cache hit and makes no backend call.                                    *)

Count(list, x) == Cardinality({i \in 1..Len(list) : list[i] = x})

\* the lists that hold the elements of `list`, each as often, in any order
PermutationsOf(list) ==
    LET elements == {list[i] : i \in 1..Len(list)}
    IN  {P \in [1..Len(list) -> elements] :
            \A x \in elements : Count(P, x) = Count(list, x)}

C5_CacheKeyInvariant ==
    /\ [](\A F \in PermutationsOf(store.facts) :
             generateCacheKey(F) = generateCacheKey(store.facts))
    /\ [][\A F \in PermutationsOf(store.facts) :
             (/\ Starts
              /\ store.facts # <<>>
              /\ generateCacheKey(F) \in DOMAIN cache
              /\ isCacheValid(cache[generateCacheKey(F)].timestamp))
             => /\ cycles' = cycles
                /\ last'.kind = "value"
                /\ last'.value = cache[generateCacheKey(F)].state
                /\ store'.currentState = cache[generateCacheKey(F)].state
                /\ store'.confidence = cache[generateCacheKey(F)].confidence]_vars

\* the entry was written for ["a", "b"]; the facts are now ["b", "a"] and a
\* determination on them was served from that entry
C5_Witness ==
    /\ store.facts = <<FactB, FactA>>
    /\ Len(store.transitions) = 1
    /\ store.transitions[1].facts = <<FactA, FactB>>
    /\ generateCacheKey(<<FactA, FactB>>) \in DOMAIN cache
    /\ cache[generateCacheKey(<<FactA, FactB>>)].timestamp < store.lastUpdated
    /\ last.kind = "value"
    /\ cycles = <<>>

-----------------------------------------------------------------------------
(* C6: error resilience.  With a backend that fails retryCount - 1 times and *)
(* then succeeds, determineState() resolves with the state of the successful *)
(* response after exactly retryCount - 1 failed attempts, retryCount         *)
(* attempts in total, and no error is recorded: a failure that is not the    *)
(* retryCount-th leaves the call waiting and the store as it is, the wait    *)
(* is followed by another attempt, and the attempt that succeeds resolves    *)
(* the call with its state and leaves error undefined.                       *)

C6_ErrorResilience ==
    [][\A i \in 1..Len(cycles) :
          /\ \A error \in Errors :
                (FetchFail(i, error) /\ cycles[i].attempts + 1 <= config.retryCount - 1)
                => /\ Len(cycles') = Len(cycles)
                   /\ cycles'[i].attempts = cycles[i].attempts + 1
                   /\ cycles'[i].pc = "backoff"
                   /\ store' = store
          /\ BackoffOver(i) =>
                /\ Len(cycles') = Len(cycles)
                /\ cycles'[i].attempts = cycles[i].attempts
                /\ cycles'[i].pc = "fetch"
                /\ store' = store
          /\ \A response \in Responses :
                (FetchOk(i, response) /\ cycles[i].attempts = config.retryCount - 1)
                => /\ last' = Delivered(cycles[i].trigger, "value", response.state)
                   /\ store'.currentState = response.state
                   /\ store'.confidence = response.confidence
                   /\ store'.error = NoError]_vars

\* the only way to time 3000 is the two backoff waits (1000, then 2000) of
\* two failed attempts; the third attempt succeeded there
C6_Witness ==
    /\ operations = 2
    /\ now = 3000
    /\ store.lastUpdated = 3000
    /\ last = Delivered("determineState", "value", store.currentState)
    /\ store.currentState # NULL
    /\ store.error = NoError
    /\ cycles = <<>>

-----------------------------------------------------------------------------
(* C7: retry exhaustion.  When every attempt fails, a call of the LLM client *)
(* makes exactly retryCount attempts, never more; after the k-th failed      *)
(* attempt, k < retryCount, it waits 2^k * 500 ms; after the last it does    *)
(* not wait and raises the error of that attempt to the determination cycle  *)
(* instead of returning a result.                                            *)

-----------------------------------------------------------------------------
(* C8: clearFacts() called in any state leaves facts = [], currentState =    *)
(* null and confidence = 0 as soon as it returns, makes no backend call and  *)
(* does not arm the debounce timer.                                          *)

C8_ClearFacts ==
    [][clearFacts =>
          /\ store'.facts = <<>>
          /\ store'.currentState = NULL
          /\ store'.confidence = 0
          /\ cycles' = cycles
          /\ cache' = cache
          /\ timers' = timers
          /\ updateTimer' = updateTimer]_vars

\* a state had been determined from some facts, and clearFacts() cleared it
\* (reset() would have emptied the transitions too)
C8_Witness ==
    /\ store.transitions # <<>>
    /\ store.facts = <<>>
    /\ store.currentState = NULL
    /\ store.confidence = 0
    /\ last = Nothing

-----------------------------------------------------------------------------
(* C9: determineState() with an empty fact list is a no-op: it returns the   *)
(* existing currentState (possibly null), makes no backend call, touches no  *)
(* cache entry and leaves every field of the StateRecord unchanged.          *)

C9_EmptyFactsNoOp ==
    [][(determineState /\ store.facts = <<>>) =>
          /\ last' = Delivered("determineState", "value", store.currentState)
          /\ store' = store
          /\ cache' = cache
          /\ cycles' = cycles]_vars

\* the facts were removed after a state was determined, and a later
\* determineState() returned that state
C9_Witness ==
    /\ store.facts = <<>>
    /\ store.currentState # NULL
    /\ store.lastUpdated < now
    /\ last = Delivered("determineState", "value", store.currentState)
    /\ cycles = <<>>

-----------------------------------------------------------------------------
(* C10: an explicit determineState() cancels the pending debounce timer      *)
(* before it runs, so the explicit cycle and the debounced cycle of one      *)
(* mutation burst never both execute: every pending timer is the one         *)
(* updateTimer names, determineState() leaves no timer pending, and it       *)
(* starts at most one cycle.                                                 *)

C10_ExplicitCancelsTimer ==
    /\ [](\A t \in timers : t.id = updateTimer)
    /\ [][determineState =>
             /\ timers' = {}
             /\ updateTimer' = NoTimer
             /\ Len(cycles') <= Len(cycles) + 1]_vars

\* addFact() then determineState() at time 0: the one cycle ran at time 0,
\* and long after debounceTime no timer has fired and none is pending
C10_Witness ==
    /\ operations = 2
    /\ store.facts = <<FactA>>
    /\ updateTimer = NoTimer
    /\ timers = {}
    /\ cycles = <<>>
    /\ store.currentState # NULL
    /\ store.lastUpdated = 0
    /\ now > config.debounceTime

-----------------------------------------------------------------------------
(* C11: at every moment at most one debounce-triggered determination cycle   *)
(* is in flight: no second debounce-triggered cycle starts while an earlier  *)
(* one still awaits its backend call.                                        *)

\* the cycles in flight that the debounce timer started
debouncedInFlight == {i \in 1..Len(cycles) : cycles[i].trigger = "timer"}

C11_OneDebouncedCycleInFlight == Cardinality(debouncedInFlight) <= 1

-----------------------------------------------------------------------------
(* C12: reset() called in any state leaves the StateRecord in its initial    *)
(* form (no state, no facts, confidence 0, no transitions, no error) and the *)
(* cache empty, and does not change the set of subscribers: every callback   *)
(* subscribed before reset() is passed the reset record and is passed the    *)
(* record of every later update.                                             *)

isSubscribed(s) == position(subscribers, s) # 0

\* the last record the step passed to callback s is the record of the store
receivesUpdate(s) ==
    /\ notified'[s] # <<>>
    /\ notified'[s][Len(notified'[s])] = store'

C12_ResetRestoresInitialForm ==
    [][/\ reset =>
            /\ store'.currentState = NULL
            /\ store'.previousState = NULL
            /\ store'.facts = <<>>
            /\ store'.confidence = 0
            /\ store'.transitions = <<>>
            /\ store'.error = NoError
            /\ cache' = EmptyCache
            /\ subscribers' = subscribers
            /\ \A s \in SubscriberIds : isSubscribed(s) => notified'[s] = <<store'>>
       /\ subscribers' # subscribers =>
            \E s \in SubscriberIds : subscribe(s, FALSE) \/ unsubscribe(s)
       /\ \A s \in SubscriberIds :
            (isSubscribed(s) /\ store' # store) => receivesUpdate(s)]_vars

\* a reset() after time 0 (lastUpdated is its time, and nothing was
\* determined since), then an addFact() of which the subscriber was told
C12_Witness ==
    /\ isSubscribed(1)
    /\ store.lastUpdated > 0
    /\ store.currentState = NULL
    /\ store.transitions = <<>>
    /\ cache = EmptyCache
    /\ cycles = <<>>
    /\ store.facts = <<FactA>>
    /\ notified[1] = <<store>>

-----------------------------------------------------------------------------
(* C13: getState() returns a snapshot by value: writing to the returned      *)
(* record, or to its facts or transitions lists, never changes what a later  *)
(* getState() returns, what subscribers receive, or the facts the next       *)
(* determination cycle uses.                                                 *)

\* the caller writes to a record it got from getState()
WritesSnapshot ==
    \/ \E fact \in {FactA, FactB} : pushFact(fact)
    \/ \E state \in States : assignState(state)
    \/ truncateTransitions

C13_SnapshotByValue == [][WritesSnapshot => store' = store]_vars

-----------------------------------------------------------------------------
(* C14: a callback registered with subscribe() is invoked synchronously once *)
(* at subscribe time with the current StateRecord, and thereafter on every   *)
(* mutation of the store (fact add, remove, clear, applied determination     *)
(* result, recorded error, reset) with the post-mutation StateRecord; once   *)
(* its unsubscribe handle has been called it is never invoked again, and     *)
(* the other subscribers are unaffected.                                     *)

C14_SubscriberNotified ==
    [][\A s \in SubscriberIds :
          /\ subscribe(s, FALSE) =>
                /\ notified'[s] = <<store>>
                /\ store' = store
                /\ \A o \in SubscriberIds \ {s} : notified'[o] = <<>>
          /\ (isSubscribed(s) /\ (Mutation \/ clearFacts \/ reset \/ store' # store))
                => receivesUpdate(s)
          /\ (s \in unsubscribed \/ s \in unsubscribed') => notified'[s] = <<>>
          /\ unsubscribe(s) =>
                /\ ~isSubscribed(s)'
                /\ \A o \in SubscriberIds \ {s} : isSubscribed(o)' = isSubscribed(o)]_vars

\* callback 1 has unsubscribed; the update that followed was passed to
\* callback 2 and not to callback 1
C14_Witness ==
    /\ unsubscribed = {1}
    /\ isSubscribed(2)
    /\ store.facts = <<FactA>>
    /\ notified[2] = <<store>>
    /\ notified[1] = <<>>

-----------------------------------------------------------------------------
(* C15: subscriber isolation.  When one subscriber callback throws during a  *)
(* notification, every other subscriber still receives that notification    *)
(* and all later ones, the mutation that triggered the notification is       *)
(* still applied, and the StateRecord is not corrupted.                      *)

\* callback s is subscribed and returns normally
wellBehaved(s) ==
    /\ isSubscribed(s)
    /\ ~subscribers[position(subscribers, s)].throws

C15_SubscriberIsolation ==
    [][/\ \A s \in SubscriberIds :
            (wellBehaved(s) /\ store' # store) => receivesUpdate(s)
       /\ addFact(FactA) =>
            timers' = {[id |-> updateTimer', due |-> now + config.debounceTime]}
       /\ clearFacts => (store'.currentState = NULL /\ store'.confidence = 0)
       /\ reset => cache' = EmptyCache
       /\ \A i \in 1..Len(cycles), response \in Responses :
            FetchOk(i, response) => store'.error = NoError]_vars

-----------------------------------------------------------------------------
(* C16: end-to-end liveness.  After a fact mutation that leaves a non-empty  *)
(* fact list, if no further operation occurs and the backend answers with    *)
(* state S, then without any explicit determineState() a debounce-triggered  *)
(* cycle eventually runs and currentState becomes S; from the initial record *)
(* with one added fact and a backend returning state A with confidence 0.9   *)
(* the outcome is currentState = A and exactly one Transition, from null to  *)
(* A.                                                                        *)

\* the timer has fired and every cycle has been answered
Settled == timers = {} /\ cycles = <<>>

C16_EndToEndLiveness ==
    /\ \A n \in 0..(MaxOps + 1) :
          (operations = n /\ store.facts # <<>> /\ timers # {})
              ~> (\/ operations # n
                  \/ /\ Settled
                     /\ store.currentState = StubResponse.state
                     /\ store.confidence = StubResponse.confidence)
    /\ []((operations = 1 /\ store.facts = <<FactA>> /\ Settled) =>
              /\ store.currentState = "A"
              /\ store.confidence = 90
              /\ Len(store.transitions) = 1
              /\ store.transitions[1].from = NULL
              /\ store.transitions[1].to = "A"
              /\ store.transitions[1].facts = <<FactA>>)

\* one fact was added to the initial record and nothing else was done: the
\* timer's cycle has delivered A
C16_Witness ==
    /\ operations = 1
    /\ store.facts = <<FactA>>
    /\ last = Delivered("timer", "value", "A")
    /\ store.currentState = "A"
    /\ Len(store.transitions) = 1
    /\ store.transitions[1].from = NULL

-----------------------------------------------------------------------------
(* C17: in every step in which currentState changes from a non-null value to *)
(* null, the operation performed is clearFacts(); no other operation and no  *)
(* determination outcome sets currentState to null.                          *)

\* currentState changes from a non-null value to null
Nulled == store.currentState # NULL /\ store'.currentState = NULL

AppliedNull ==
    \E response \in AnyResponses :
        /\ response.state = NULL
        /\ \/ AppliedFromCache(response.state, response.confidence)
           \/ AppliedFromBackend(response.state, response.confidence)

-----------------------------------------------------------------------------
(* C18: the transition history is append-only.  For every operation of the   *)
(* store, the transitions list after the operation has the transitions list  *)
(* before it as a prefix; no existing Transition record is ever edited or    *)
(* removed.                                                                  *)

\* the history before the step is a prefix of the history after it
HistoryKept ==
    /\ Len(store.transitions) <= Len(store'.transitions)
    /\ SubSeq(store'.transitions, 1, Len(store.transitions)) = store.transitions

C18_TransitionsAppendOnly == [][HistoryKept]_vars

\* as the code has it: every operation other than reset() keeps the history
\* as a prefix, and reset() empties it
C18_AppendOnlyUntilReset ==
    [][IF reset THEN store'.transitions = <<>> ELSE HistoryKept]_vars

\* a second Transition was appended behind the first, which is still there
C18_Witness ==
    /\ Len(store.transitions) = 2
    /\ store.transitions[1].from = NULL
    /\ store.transitions[1].to = "A"
    /\ store.transitions[2].from = "A"
    /\ store.transitions[2].to = "B"
    /\ store.currentState = "B"

-----------------------------------------------------------------------------
(* C19: determinationThreshold is enforced.  A determination result is       *)
(* applied to currentState only when its confidence is greater than the      *)
(* configured determinationThreshold; a result with confidence at or below   *)
(* the threshold does not change currentState.                               *)
C19_ThresholdEnforced ==
    [][\A r \in Responses :
          (/\ \/ AppliedFromCache(r.state, r.confidence)
              \/ AppliedFromBackend(r.state, r.confidence)
           /\ r.confidence <= config.determinationThreshold)
          => store'.currentState = store.currentState]_vars

-----------------------------------------------------------------------------
(* C20: in every reachable state currentState is either null or one of the   *)
(* state names configured at construction, and every Transition's to field   *)
(* is one of the configured state names, whatever state value the backend    *)
(* returns.                                                                  *)
C20_StateIsConfigured ==
    /\ store.currentState \in States \cup {NULL}
    /\ \A i \in 1..Len(store.transitions) : store.transitions[i].to \in States

-----------------------------------------------------------------------------
(* C21: a submit-facts request whose payload is malformed (facts field       *)
(* missing or not a list) yields a client-error (400) response and never     *)
(* reaches the core: the fact list and the rest of the StateRecord are       *)
(* unchanged, no debounce timer is armed and no backend call is made.        *)

\* a JSON payload without a facts list
malformed(body) ==
    /\ body.parsed # "throws"
    /\ ~(body.parsed = "object" /\ isArray(body.facts))

C21_MalformedPayloadRejected ==
    [][\A body \in Bodies :
          (malformed(body) /\ handlePostStateFacts(body))
          => /\ last'.response.status = 400
             /\ UNCHANGED <<store, timers, updateTimer, cycles, cache>>]_vars

-----------------------------------------------------------------------------
(* C22: a submit-facts request with a valid facts list appends the facts,    *)
(* runs exactly one determination cycle (the debounce timer armed by the     *)
(* append is cancelled, so no debounced cycle fires afterwards for that      *)
(* request) and returns the resulting StateRecord; if that cycle fails the   *)
(* response is a server error (500) carrying the error message.              *)

\* the cycles in flight that a submit-facts request started
postCycles(inFlight) == {i \in 1..Len(inFlight) : inFlight[i].trigger = "post"}

\* the handler answers 200 with the record the store holds
AnswersWithRecord ==
    last'.response = [status |-> 200, body |-> stringify(store')]

C22_SubmitFacts ==
    /\ [][\A body \in Bodies :
            (~malformed(body) /\ body.parsed = "object" /\ handlePostStateFacts(body))
            => /\ store' = [store EXCEPT !.facts = store.facts \o body.facts.items]
               /\ addFactsAwaited']_vars
    /\ [][addFactsAwaited =>
            /\ postDetermineState
            /\ timers' = {}
            /\ updateTimer' = NoTimer
            /\ \/ /\ Len(cycles') = Len(cycles) + 1
                  /\ cycles' = Append(cycles, cycles'[Len(cycles')])
                  /\ cycles'[Len(cycles')].trigger = "post"
                  /\ cycles'[Len(cycles')].facts = store.facts
                  /\ last'.response = NoResponse
                  /\ store' = store
               \/ /\ cycles' = cycles
                  /\ AnswersWithRecord]_vars
    /\ [][Cardinality(postCycles(cycles')) > Cardinality(postCycles(cycles))
            => addFactsAwaited]_vars
    /\ [][\A i \in postCycles(cycles), r \in Responses :
            FetchOk(i, r) => /\ AnswersWithRecord
                             /\ store'.currentState = r.state
                             /\ store'.confidence = r.confidence
                             /\ store'.facts = store.facts]_vars
    /\ [][\A i \in postCycles(cycles), error \in Errors :
            FetchFail(i, error)
            => /\ last'.response = [status |-> 500, body |-> [error |-> error]]
               /\ store'.error = error]_vars

\* a request that posted the fact a to the initial record has been answered
\* by the backend's A: the response carries the fact and the state, and no
\* timer is pending
C22_Witness ==
    /\ last.response.status = 200
    /\ last.response.body.facts = <<FactA>>
    /\ last.response.body.currentState = "A"
    /\ Len(last.response.body.transitions) = 1
    /\ operations = 1
    /\ store.currentState = "A"
    /\ timers = {}

-----------------------------------------------------------------------------
(* C23: addFact(f) and addFacts(fs) append the given fact texts to the end   *)
(* of the fact list in the given order, keep every existing fact in place    *)
(* and keep duplicates, change no other field of the StateRecord, and        *)
(* (re)arm the debounce timer, also when fs is empty.                        *)

\* the step leaves one pending timer, the one it armed, due debounceTime
\* from now, and a timer that was pending before is gone
Rearmed ==
    /\ updateTimer' # NoTimer
    /\ timers' = {[id |-> updateTimer', due |-> now + config.debounceTime]}

C23_AddFactsAppends ==
    /\ [][\A fact \in {FactA, FactB} :
            addFact(fact)
            => /\ store' = [store EXCEPT !.facts = store.facts \o <<fact>>]
               /\ Rearmed]_vars
    /\ [][\A facts \in SeqsUpTo({FactA, FactB}, MaxFacts) :
            addFacts(facts)
            => /\ store' = [store EXCEPT !.facts = store.facts \o facts]
               /\ Rearmed]_vars

\* b was added, then a, then the state was determined, and no fact has moved
C23_Witness ==
    /\ store.facts = <<FactB, FactA>>
    /\ store.currentState # NULL
    /\ operations = 2

-----------------------------------------------------------------------------
(* C24: removeFact(f) removes every occurrence of the text f from the fact   *)
(* list, keeps all other facts in their relative order, and (re)arms the     *)
(* debounce timer even when f was not present.                               *)

\* the list `facts` with every occurrence of `fact` taken out, the others in
\* their order
RECURSIVE Without(_, _)
Without(facts, fact) ==
    IF facts = <<>> THEN <<>>
    ELSE IF Head(facts) = fact THEN Without(Tail(facts), fact)
    ELSE <<Head(facts)>> \o Without(Tail(facts), fact)

C24_RemoveFactRemovesAll ==
    [][\A fact \in {FactA, FactB, FactC} :
          removeFact(fact)
          => /\ store' = [store EXCEPT !.facts = Without(store.facts, fact)]
             /\ \A i \in 1..Len(store'.facts) : store'.facts[i] # fact
             /\ Rearmed]_vars

\* the list a, b, c was determined and then lost its b: a and c are left in
\* their order and a timer is pending again
C24_Witness ==
    /\ generateCacheKey(<<FactA, FactB, FactC>>) \in DOMAIN cache
    /\ store.facts = <<FactA, FactC>>
    /\ operations = 2
    /\ timers # {}

-----------------------------------------------------------------------------
(* C25: a failure of a debounce-triggered determination cycle is attached to *)
(* the StateRecord's error field and swallowed: it never propagates out of   *)
(* the timer callback to any caller; a failure of an explicit                *)
(* determineState() is recorded in error as well and is also raised to the   *)
(* caller.                                                                   *)
C25_TimerSwallowsCallerSees ==
    /\ [][\A i \in 1..Len(cycles), error \in Errors :
            Fails(i, error) =>
                /\ store'.error = error
                /\ cycles[i].trigger = "timer"
                      => last' = Delivered("timer", "swallowed", error)
                /\ cycles[i].trigger = "determineState"
                      => last' = Delivered("determineState", "throw", error)]_vars
    /\ [](last.op = "timer" => last.kind # "throw")

\* a cycle the timer started has failed: the error is in the record and
\* nobody was thrown at
C25_Witness ==
    /\ last.op = "timer"
    /\ last.kind = "swallowed"
    /\ store.error = last.value
    /\ store.error \in Errors
    /\ store.facts # <<>>

-----------------------------------------------------------------------------
(* C26: an error recorded by a failed determination is cleared by the next   *)
(* successful determination, whether its result comes from the backend or    *)
(* from a cache hit: after any successful determination the StateRecord has  *)
(* no error.                                                                 *)
C26_SuccessClearsError ==
    [][\A r \in Responses :
          (\/ AppliedFromCache(r.state, r.confidence)
           \/ AppliedFromBackend(r.state, r.confidence))
          => store'.error = NoError]_vars

\* a result taken from the cache (the only entry is older than the update)
\* has taken a failed cycle's error off the record
C26_Witness ==
    /\ errorCleared \in Errors
    /\ store.error = NoError
    /\ last.kind = "value"
    /\ DOMAIN cache = {generateCacheKey(store.facts)}
    /\ cache[generateCacheKey(store.facts)].timestamp < store.lastUpdated

-----------------------------------------------------------------------------
(* C27: lazy cache expiry.  A cache entry is used if and only if the time    *)
(* since it was written is strictly less than cacheExpiry (an age equal to   *)
(* cacheExpiry is a miss); a cache hit does not refresh the entry's          *)
(* timestamp; an expired entry stays in the map and causes a backend call    *)
(* whose successful result overwrites it, and a failed backend call leaves   *)
(* the cache unchanged.                                                      *)

\* the cache key of the facts in the store
storeKey == generateCacheKey(store.facts)

C27_LazyCacheExpiry ==
    /\ [][(Starts /\ store.facts # <<>> /\ storeKey \in DOMAIN cache) =>
              IF now - cache[storeKey].timestamp < config.cacheExpiry
              THEN /\ store'.currentState = cache[storeKey].state
                   /\ store'.confidence = cache[storeKey].confidence
                   /\ cycles' = cycles
                   /\ cache' = cache
              ELSE /\ Len(cycles') = Len(cycles) + 1
                   /\ cycles'[Len(cycles')].cacheKey = storeKey
                   /\ cycles'[Len(cycles')].pc = "fetch"
                   /\ store' = store
                   /\ cache' = cache]_vars
    /\ [][\A i \in 1..Len(cycles), r \in Responses :
              FetchOk(i, r) =>
                  /\ DOMAIN cache' = DOMAIN cache \cup {cycles[i].cacheKey}
                  /\ cache'[cycles[i].cacheKey] =
                        [state |-> r.state, confidence |-> r.confidence,
                         timestamp |-> now]
                  /\ \A k \in DOMAIN cache \ {cycles[i].cacheKey} :
                        cache'[k] = cache[k]]_vars
    /\ [][\A i \in 1..Len(cycles), error \in Errors :
              FetchFail(i, error) => cache' = cache]_vars

\* an entry exactly cacheExpiry old was not used: it is still in the map and
\* the backend has been called for its key
C27_Witness ==
    /\ store.facts # <<>>
    /\ storeKey \in DOMAIN cache
    /\ now - cache[storeKey].timestamp = config.cacheExpiry
    /\ last.kind = "pending"
    /\ cycles # <<>>
    /\ cycles[Len(cycles)].cacheKey = storeKey

-----------------------------------------------------------------------------
(* C28: store mutations are published atomically.  Subscribers never observe *)
(* an intermediate StateRecord of a single caller operation; in particular   *)
(* during clearFacts() no subscriber is notified with a record in which      *)
(* facts is already empty while currentState and confidence still hold their *)
(* old non-null / non-zero values.                                           *)
C28_AtomicPublication ==
    [][\A s \in SubscriberIds :
          \A i \in 1..Len(notified'[s]) : notified'[s][i] = store']_vars

-----------------------------------------------------------------------------
(* C29: sliding single timer.  At every moment at most one debounce timer is *)
(* pending, and a debounce-triggered cycle starts only when at least         *)
(* debounceTime has elapsed since the most recent fact mutation (each        *)
(* mutation cancels the not-yet-fired timer and restarts the full wait):     *)
(* after a mutation every pending timer is due debounceTime after that       *)
(* mutation, no other step arms a timer or changes one, and a timer's cycle  *)
(* starts only when the timer is due.                                        *)
C29_SlidingSingleTimer ==
    /\ [](Cardinality(timers) <= 1)
    /\ [][IF Mutation
          THEN \A t \in timers' : t.due = now + config.debounceTime
          ELSE timers' \subseteq timers]_vars
    /\ [][\A t \in timers :
              TimerFire(t) => /\ now >= t.due
                              /\ t \notin timers'
                              /\ Len(cycles') <= Len(cycles) + 1]_vars

\* two facts were added at time 0 and the one timer has fired debounceTime
\* later: one cycle is in flight for both facts, and no timer is pending
C29_Witness ==
    /\ last = Delivered("timer", "pending", NULL)
    /\ now = config.debounceTime
    /\ operations = 2
    /\ timers = {}
    /\ Len(cycles) = 1
    /\ cycles[1].trigger = "timer"
    /\ cycles[1].facts = <<FactA, FactA>>

-----------------------------------------------------------------------------
(* C30: history consistency invariant.  In every reachable state, if         *)
(* transitions is empty then currentState and previousState are both null;   *)
(* if transitions is non-empty then previousState equals the from field of   *)
(* the last Transition and currentState is either null or equal to the to    *)
(* field of the last Transition.                                             *)
C30_HistoryConsistent ==
    IF store.transitions = <<>>
    THEN store.currentState = NULL /\ store.previousState = NULL
    ELSE LET latest == store.transitions[Len(store.transitions)]
         IN  /\ store.previousState = latest.from
             /\ store.currentState \in {NULL, latest.to}

\* a state was determined, cleared by clearFacts() and determined again
C30_Witness ==
    /\ Len(store.transitions) = 2
    /\ store.transitions[1].to = "A"
    /\ store.transitions[2].from = NULL
    /\ store.transitions[2].to = "B"
    /\ store.previousState = NULL
    /\ store.currentState = "B"

-----------------------------------------------------------------------------
(* C31: transition chain invariant.  Every Transition has from different     *)
(* from to, and for every pair of consecutive Transitions the later one's    *)
(* from is either null (a clearFacts() happened in between) or equal to the  *)
(* earlier one's to.                                                         *)
C31_TransitionChain ==
    /\ \A i \in 1..Len(store.transitions) :
          store.transitions[i].from # store.transitions[i].to
    /\ \A i \in 1..(Len(store.transitions) - 1) :
          store.transitions[i + 1].from \in {NULL, store.transitions[i].to}

\* A was determined, cleared by clearFacts() and determined again: the
\* second Transition starts at null although the first ended at A
C31_Witness ==
    /\ Len(store.transitions) = 2
    /\ store.transitions[1].to = "A"
    /\ store.transitions[2].from = NULL
    /\ store.transitions[2].to = "A"
    /\ store.currentState = "A"

-----------------------------------------------------------------------------
(* C32: reset() is final for earlier work.  After reset() returns, if the    *)
(* caller performs no further operation, the StateRecord stays in its        *)
(* initial form and the cache stays empty forever, even when a debounce      *)
(* timer was pending or a determination cycle was in flight at the time of   *)
(* the reset (no later backend call starts and no late result is cached or   *)
(* applied).                                                                 *)

\* the record as the constructor and reset() set it, whenever that was
initialForm(record) == record = [InitialStore EXCEPT !.lastUpdated = record.lastUpdated]

\* under SpecReset the caller's last operation, reset(), has returned
ResetReturned == operations = MaxOps

C32_ResetIsFinal ==
    ResetReturned => initialForm(store) /\ cache = EmptyCache

-----------------------------------------------------------------------------
(* C33: quiescent consistency.  With a deterministic backend, whenever no    *)
(* debounce timer is pending, no determination cycle is in flight, the fact  *)
(* list is non-empty and the last completed cycle succeeded, currentState    *)
(* equals the backend's answer for the current fact list; a result computed  *)
(* for an older fact list never ends up as the final currentState, for any   *)
(* interleaving of fact mutations, timer firings, explicit determineState()  *)
(* calls and backend response orders.                                        *)

\* nothing is pending or in flight
Quiescent == timers = {} /\ cycles = <<>>

C33_QuiescentConsistency ==
    (Quiescent /\ store.facts # <<>> /\ store.error = NoError)
        => store.currentState = Oracle(store.facts).state

-----------------------------------------------------------------------------
(* C34: cache soundness under interleaving.  Every cache entry stored under  *)
(* key K holds the (state, confidence) the backend returned for a fact list  *)
(* whose key is K, because the key is computed from the facts read at the    *)
(* start of the cycle; fact mutations or clearFacts() issued while the       *)
(* backend call is in flight never cause a result to be cached under the key *)
(* of a different fact list.                                                 *)

\* the fact lists the store can hold
FactLists == SeqsUpTo({FactA, FactB}, MaxFacts)

C34_CacheSound ==
    \A K \in DOMAIN cache :
        \E facts \in FactLists :
            /\ generateCacheKey(facts) = K
            /\ cache[K].state = Oracle(facts).state
            /\ cache[K].confidence = Oracle(facts).confidence

\* an answer for [a] has just been cached and applied while the store holds
\* [a, b], whose key has no entry
C34_Witness ==
    /\ last.kind = "value"
    /\ store.facts = <<FactA, FactB>>
    /\ DOMAIN cache = {generateCacheKey(<<FactA>>)}
    /\ cache[generateCacheKey(<<FactA>>)].state = "A"

-----------------------------------------------------------------------------
(* C35: no lost fact updates.  Applying a determination outcome (success     *)
(* from the backend, success from the cache, or failure) never changes the   *)
(* fact list; facts added or removed while a backend call is in flight are   *)
(* all still present or absent, in order, after the result has been applied. *)

\* a step of a determination cycle: its start (with the cache lookup), a
\* response of the backend, a failure of the backend
Outcome ==
    \/ Starts
    \/ \E i \in 1..Len(cycles), response \in Responses : FetchOk(i, response)
    \/ \E i \in 1..Len(cycles), error \in Errors : FetchFail(i, error)

C35_FactsKept == [][Outcome => store'.facts = store.facts]_vars

\* a response to a call made for [a] has just been applied to a store that
\* holds [a, a]: the second fact was added while the call was in flight
C35_Witness ==
    /\ last.kind = "value"
    /\ store.facts = <<FactA, FactA>>
    /\ store.currentState # NULL
    /\ DOMAIN cache = {generateCacheKey(<<FactA>>)}

-----------------------------------------------------------------------------
(* C36: when removeFact() empties the fact list (as opposed to clearFacts()), *)
(* the debounced cycle that follows is a no-op: no backend call is made and  *)
(* currentState, previousState, confidence and transitions keep their        *)
(* previous values, so a non-null currentState persists with an empty fact   *)
(* list until clearFacts(), reset() or a later determination.                *)

\* the fields a determination sets are those of `record`
Determined(record) ==
    [f \in {"currentState", "previousState", "confidence", "transitions"} |-> record[f]]

C36_RemoveEmptiedNoOp ==
    [][/\ (removeFact(FactA) /\ store'.facts = <<>>)
            => Determined(store') = Determined(store) /\ cycles' = cycles
       /\ (TimerFires /\ store.facts = <<>>)
            => store' = store /\ cycles' = cycles /\ cache' = cache
       /\ (store.facts = <<>> /\ store.currentState # NULL
             /\ store'.currentState # store.currentState)
            => clearFacts \/ reset \/ \E i \in 1..Len(cycles), response \in Responses :
                                           FetchOk(i, response)]_vars

\* state A was determined for [a]; removeFact('a') emptied the list and the
\* debounced cycle that followed has run: A is still the current state
C36_Witness ==
    /\ last = Delivered("timer", "value", store.currentState)
    /\ store.facts = <<>>
    /\ store.currentState = "A"
    /\ Len(store.transitions) = 1
    /\ store.transitions[1].facts = <<FactA>>
    /\ cycles = <<>>
    /\ timers = {}

-----------------------------------------------------------------------------
(* C37: defaulting of numeric options.  cacheExpiry, debounceTime and        *)
(* retryCount take the caller's value when it is a positive number and the   *)
(* default (300000, 500, 3) when the option is omitted; a configured value   *)
(* of 0 is also replaced by the default, so 0 cannot be used to disable      *)
(* caching, debouncing or backend attempts.                                  *)

Defaults ==
    [cacheExpiry |-> DefaultCacheExpiry, debounceTime |-> DefaultDebounceTime,
     retryCount |-> DefaultRetryCount]

\* what the claim says the store works with
Effective(name) ==
    IF name \in DOMAIN given /\ given[name] > 0 THEN given[name] ELSE Defaults[name]

C37_NumericDefaults ==
    /\ [](\A name \in OptionNames : config[name] = Effective(name))
    /\ [][addFact(FactA) =>
             timers' = {[id |-> updateTimer',
                         due |-> now + Effective("debounceTime")]}]_vars
    /\ [][\A i \in 1..Len(cycles) :
             (FetchFail(i, "Claude API error") /\ Len(cycles') < Len(cycles))
                 => cycles[i].attempts + 1 = Effective("retryCount")]_vars
    /\ [][(determineState /\ store.facts # <<>>
                /\ generateCacheKey(store.facts) \in DOMAIN cache) =>
             (cycles' = cycles <=>
                 now - cache[generateCacheKey(store.facts)].timestamp
                     < Effective("cacheExpiry"))]_vars

\* the caller passed 0 for all three options: the call failed after three
\* attempts and their backoff waits of 1000 and 2000 ms, and the fact added
\* then is debounced for 500 ms
C37_Witness ==
    /\ given = [cacheExpiry |-> 0, debounceTime |-> 0, retryCount |-> 0]
    /\ store.error = "Claude API error"
    /\ now = 3 * 2 * BackoffBase
    /\ timers = {[id |-> updateTimer, due |-> now + DefaultDebounceTime]}

=============================================================================
